---------------------------- MODULE Spec2Model ----------------------------
(***************************************************************************)
(* State-machine model of ratatui-wgpu's presentation-surface layer        *)
(* (src/src/backend/mod.rs): RenderSurface (Surface | Headless),           *)
(* RenderTarget, the PostProcessor contract and build_wgpu_state, together *)
(* with the backend frame sequence that drives them.                       *)
(*                                                                         *)
(* Option<T> is modelled as a sequence of length at most one:              *)
(* None == << >>, Some(x) == << x >>.                                      *)
(***************************************************************************)
EXTENDS Integers, Sequences, FiniteSets, TLC

(***************************************************************************)
(* Bounds of the model.                                                    *)
(***************************************************************************)
\* ordinary widths and heights are drawn from 0 .. MaxDim
MaxDim == 2

\* 2^30: a quarter of the u32 range 2^32 (which TLC's integers cannot hold)
Quarter == 2 ^ 30
\* the least u32 dimension d with d * 4 >= 2^32
BigDim == Quarter

Dims == (0 .. MaxDim) \cup {BigDim}

\* the sizes << width, height >> the model configures: every ordinary size,
\* and the two sizes that overflow configure's two multiplications
Sizes ==
    ((0 .. MaxDim) \X (0 .. MaxDim)) \cup {<< BigDim, 1 >>, << 1, BigDim >>}

None == << >>
Some(x) == << x >>
IsSome(o) == Len(o) = 1
Unwrap(o) == o[1]

\* the texture formats the model distinguishes
TextureFormat == {"Rgba8Unorm", "Bgra8UnormSrgb"}

\* the errors wgpu's Surface::get_current_texture reports
SurfaceError == {"Timeout", "Outdated", "Lost", "OutOfMemory"}
AcquireOutcome == {"Ok"} \cup SurfaceError

\* u32::max
Max(a, b) == IF a >= b THEN a ELSE b

(***************************************************************************)
(* u32 multiplication.  TLC's integers end at 2^31 - 1, so 2^32 is never   *)
(* written: whether a * b reaches 2^32 is decided by division, and a       *)
(* product that wraps is computed byte by byte.                            *)
(***************************************************************************)
\* 2^31 - 1
MaxInt == (Quarter - 1) * 2 + 1

\* does a * b overflow u32, i.e. is b > (2^32 - 1) div a, where
\* 2^32 - 1 = 2 * MaxInt + 1 (a panic when the build checks overflow)
MulOverflows(a, b) ==
    /\ a >= 2
    /\ b > 2 * (MaxInt \div a) + ((2 * (MaxInt % a) + 1) \div a)

Byte(a, i) == (a \div (256 ^ i)) % 256

\* the four low bytes of a * b
WideMul(a, b) ==
    LET t(i, j) == IF j \in 0 .. 3 THEN Byte(a, i) * Byte(b, j) ELSE 0
        p(k) == t(0, k) + t(1, k - 1) + t(2, k - 2) + t(3, k - 3)
        c0 == p(0)
        c1 == p(1) + (c0 \div 256)
        c2 == p(2) + (c1 \div 256)
        c3 == p(3) + (c2 \div 256)
    IN  << c0 % 256, c1 % 256, c2 % 256, c3 % 256 >>

\* a.wrapping_mul(b): what a * b yields when the build does not check
WrappingMul(a, b) ==
    IF MulOverflows(a, b)
    THEN LET d == WideMul(a, b)
         IN  d[1] + 256 * d[2] + 65536 * d[3] + 16777216 * d[4]
    ELSE a * b

VARIABLES
    surface,        \* the RenderSurface
    target,         \* Option<RenderTarget>: the target the caller holds
    presents,       \* present calls made on the target acquired last
    shown,          \* swapchain images of that target sent to the display
    last,           \* the last call made and what it returned
    panicked,       \* "" or the call that panicked
    overflow_checks,\* build profile: are integer overflows checked
    configured,     \* has RenderSurface::configure been called
    surface_config, \* the backend's SurfaceConfiguration
    wgpu_state,     \* the backend's WgpuState (the text target)
    post_process,   \* the backend's PostProcessor
    dirty,          \* has the text changed since it was last processed
    frame           \* what the current (or last) frame has done

vars == << surface, target, presents, shown, last, panicked, overflow_checks,
           configured, surface_config, wgpu_state, post_process, dirty,
           frame >>

backendVars == << surface_config, wgpu_state, post_process, dirty, frame >>

(***************************************************************************)
(* The wgpu Device.  A texture is named by an id that no texture alive at  *)
(* its creation has; dev is the set of ids of the textures alive.  0 names *)
(* the surface's own swapchain image.                                      *)
(***************************************************************************)
Fresh(dev) == CHOOSE n \in 1 .. (Cardinality(dev) + 1) :
                  /\ n \notin dev
                  /\ \A m \in 1 .. (n - 1) : m \in dev

create_texture(dev, width, height, format, usage) ==
    [id |-> Fresh(dev), width |-> width, height |-> height,
     format |-> format, usage |-> usage]

create_buffer(size, usage) ==
    [size |-> size, usage |-> usage]

\* Texture::create_view(&TextureViewDescriptor::default())
create_view(texture) ==
    [texture |-> texture.id, width |-> texture.width,
     height |-> texture.height, format |-> texture.format,
     usage |-> texture.usage]

(***************************************************************************)
(* RenderSurface constructors.                                             *)
(***************************************************************************)
new_surface ==
    [kind |-> "Surface", config |-> None]

new_headless_with_format(format) ==
    [kind |-> "Headless", texture |-> None, buffer |-> None,
     buffer_width |-> 0, width |-> 0, height |-> 0, format |-> format]

new_headless ==
    new_headless_with_format("Rgba8Unorm")

(***************************************************************************)
(* SurfaceConfiguration                                                    *)
(***************************************************************************)
SurfaceConfiguration(usage, format, width, height, present_mode, latency, alpha_mode) ==
    [usage |-> usage, format |-> format, width |-> width, height |-> height,
     present_mode |-> present_mode,
     desired_maximum_frame_latency |-> latency,
     alpha_mode |-> alpha_mode, view_formats |-> << >>]

\* An Adapter is described by what it reports for the surface: the formats
\* it can present (possibly none).
Adapters == { << >>, << "Bgra8UnormSrgb" >>, << "Rgba8Unorm" >> }

(***************************************************************************)
(* RenderSurface::get_default_config(&self, adapter, width, height)        *)
(* Every method is an operator from the receiver and the arguments to      *)
(* [self: the receiver afterwards, ret: the value returned].               *)
(***************************************************************************)
\* the Live arm: surface.get_default_config(adapter, width, height), wgpu's
\* answer for the adapter's capabilities
get_default_config_surface(self, adapter, width, height) ==
    [self |-> self,
     ret |-> IF Len(adapter) = 0 THEN None
             ELSE Some(SurfaceConfiguration({"RENDER_ATTACHMENT"}, adapter[1],
                           width, height, "Fifo", 2, "Auto"))]

\* the Headless arm
get_default_config_headless(self, width, height) ==
    [self |-> self,
     ret |-> Some(SurfaceConfiguration({"RENDER_ATTACHMENT"}, self.format,
                      width, height, "Immediate", 2, "Auto"))]

\* mutant: the Headless arm answers with the recorded size, not the asked
get_default_config_recorded(self, adapter, width, height) ==
    IF self.kind = "Surface"
    THEN get_default_config_surface(self, adapter, width, height)
    ELSE get_default_config_headless(self, self.width, self.height)

get_default_config(self, adapter, width, height) ==
    IF self.kind = "Surface"
    THEN get_default_config_surface(self, adapter, width, height)
    ELSE get_default_config_headless(self, width, height)

(***************************************************************************)
(* RenderSurface::configure(&mut self, device, config)                     *)
(* dev is the device (the textures alive), checks the build's overflow     *)
(* checks.  Returns the receiver and "" or the place of a panic; the       *)
(* assignments made before a panic stay made.                              *)
(***************************************************************************)
\* the Live arm: Surface::configure(surface, device, config)
configure_surface(self, config) ==
    [self |-> [self EXCEPT !.config = Some(config)], panic |-> ""]

\* the Headless arm
configure_headless(self, dev, config, checks) ==
    LET tex == create_texture(dev, config.width, config.height, self.format,
                   {"RENDER_ATTACHMENT", "COPY_SRC"})
        s1 == [self EXCEPT !.texture = Some(tex)]
        \* *buffer_width = config.width * 4;
        bw == WrappingMul(config.width, 4)
        s2 == [s1 EXCEPT !.buffer_width = bw]
        \* size: (*buffer_width * config.height) as u64
        size == WrappingMul(bw, config.height)
        buf == create_buffer(size, {"COPY_DST", "MAP_READ"})
        s3 == [s2 EXCEPT !.buffer = Some(buf), !.width = config.width,
                         !.height = config.height]
    IN  IF checks /\ MulOverflows(config.width, 4)
        THEN [self |-> s1, panic |-> "configure"]
        ELSE IF checks /\ MulOverflows(bw, config.height)
        THEN [self |-> s2, panic |-> "configure"]
        ELSE [self |-> s3, panic |-> ""]

\* mutant: nothing is allocated when the size is the recorded one
configure_lazy(self, dev, config, checks) ==
    IF self.kind = "Surface"
    THEN configure_surface(self, config)
    ELSE IF self.width = config.width /\ self.height = config.height
    THEN [self |-> self, panic |-> ""]
    ELSE configure_headless(self, dev, config, checks)

\* mutant: the row width is computed from the width recorded before
configure_stale_width(self, dev, config, checks) ==
    IF self.kind = "Surface"
    THEN configure_surface(self, config)
    ELSE LET r == configure_headless(self, dev, config, checks)
         IN  [r EXCEPT !.self.buffer_width = WrappingMul(self.width, 4)]

configure(self, dev, config, checks) ==
    IF self.kind = "Surface"
    THEN configure_surface(self, config)
    ELSE configure_headless(self, dev, config, checks)

(***************************************************************************)
(* RenderSurface::get_current_texture(&self) -> Option<RenderTarget>       *)
(* outcome is what the underlying Surface::get_current_texture answers     *)
(* (Live only).                                                            *)
(***************************************************************************)
\* the target of the Live arm: the swapchain image (owned by the surface,
\* not created by the device) and a view of it
surface_target(self) ==
    LET cfg == Unwrap(self.config)
        output == [id |-> 0, width |-> cfg.width, height |-> cfg.height,
                   format |-> cfg.format, usage |-> cfg.usage]
    IN  [kind |-> "Surface", texture |-> Some(output),
         view |-> create_view(output)]

\* the Headless arm
get_current_texture_headless(self) ==
    [self |-> self,
     ret |-> IF IsSome(self.texture)
             THEN Some([kind |-> "Headless", texture |-> None,
                        view |-> create_view(Unwrap(self.texture))])
             ELSE None,
     logged |-> FALSE, panic |-> ""]

\* mutant: the error is logged and a target handed out all the same
get_current_texture_ignore_err(self, outcome) ==
    IF self.kind = "Surface"
    THEN [self |-> self, ret |-> Some(surface_target(self)),
          logged |-> outcome \in SurfaceError, panic |-> ""]
    ELSE get_current_texture_headless(self)

\* mutant: the acquisition is unwrapped
get_current_texture_unwrap(self, outcome) ==
    IF self.kind = "Surface"
    THEN IF outcome \in SurfaceError
         THEN [self |-> self, ret |-> None, logged |-> FALSE,
               panic |-> "get_current_texture"]
         ELSE [self |-> self, ret |-> Some(surface_target(self)),
               logged |-> FALSE, panic |-> ""]
    ELSE get_current_texture_headless(self)

\* mutant: the Headless arm moves the texture out of the surface
get_current_texture_take(self, outcome) ==
    IF self.kind = "Surface"
    THEN IF outcome \in SurfaceError
         THEN [self |-> self, ret |-> None, logged |-> TRUE, panic |-> ""]
         ELSE [self |-> self, ret |-> Some(surface_target(self)),
               logged |-> FALSE, panic |-> ""]
    ELSE [get_current_texture_headless(self) EXCEPT !.self.texture = None]

get_current_texture(self, outcome) ==
    IF self.kind = "Surface"
    THEN IF outcome \in SurfaceError
         THEN \* error!("{err}"); return None;
              [self |-> self, ret |-> None, logged |-> TRUE, panic |-> ""]
         ELSE [self |-> self, ret |-> Some(surface_target(self)),
               logged |-> FALSE, panic |-> ""]
    ELSE get_current_texture_headless(self)

(***************************************************************************)
(* RenderTarget::get_view(&self) and RenderTarget::present(self).          *)
(* present takes the target by value: the caller holds nothing afterwards  *)
(* (self |-> None); shown says whether a swapchain image went to display.  *)
(***************************************************************************)
get_view(self) ==
    self.view

\* mutant: present borrows the target, which the caller keeps
present_borrowing(self) ==
    IF self.kind = "Surface"
    THEN [self |-> Some(self), shown |-> 1]
    ELSE [self |-> Some(self), shown |-> 0]

\* mutant: a Headless target is sent to a display as a Live one is
present_shows(self) ==
    [self |-> None, shown |-> 1]

present(self) ==
    IF self.kind = "Surface"
    THEN [self |-> None, shown |-> 1]
    ELSE [self |-> None, shown |-> 0]

(***************************************************************************)
(* build_wgpu_state(device, drawable_width, drawable_height) -> WgpuState  *)
(***************************************************************************)
\* mutant: the size is not clamped to 1
build_wgpu_state_unclamped(dev, drawable_width, drawable_height) ==
    LET text_dest == create_texture(dev, drawable_width, drawable_height,
                         "Rgba8Unorm", {"TEXTURE_BINDING", "RENDER_ATTACHMENT"})
    IN  [text_dest_view |-> create_view(text_dest)]

\* mutant: width and height are exchanged
build_wgpu_state_swapped(dev, drawable_width, drawable_height) ==
    LET text_dest == create_texture(dev, Max(drawable_height, 1),
                         Max(drawable_width, 1), "Rgba8Unorm",
                         {"TEXTURE_BINDING", "RENDER_ATTACHMENT"})
    IN  [text_dest_view |-> create_view(text_dest)]

\* mutant: the texture is in the surface's usual format
build_wgpu_state_bgra(dev, drawable_width, drawable_height) ==
    LET text_dest == create_texture(dev, Max(drawable_width, 1),
                         Max(drawable_height, 1), "Bgra8UnormSrgb",
                         {"TEXTURE_BINDING", "RENDER_ATTACHMENT"})
    IN  [text_dest_view |-> create_view(text_dest)]

\* mutant: the texture is created once what was alive has been dropped
build_wgpu_state_dropped_first(dev, drawable_width, drawable_height) ==
    LET text_dest == create_texture({}, Max(drawable_width, 1),
                         Max(drawable_height, 1), "Rgba8Unorm",
                         {"TEXTURE_BINDING", "RENDER_ATTACHMENT"})
    IN  [text_dest_view |-> create_view(text_dest)]

build_wgpu_state(dev, drawable_width, drawable_height) ==
    LET text_dest == create_texture(dev, Max(drawable_width, 1),
                         Max(drawable_height, 1), "Rgba8Unorm",
                         {"TEXTURE_BINDING", "RENDER_ATTACHMENT"})
    IN  [text_dest_view |-> create_view(text_dest)]

(***************************************************************************)
(* The PostProcessor contract.  A post-processor is described by whether   *)
(* its implementation overrides needs_update (to return true), and by the  *)
(* text view and surface configuration its size-dependent objects were     *)
(* last built for.                                                         *)
(***************************************************************************)
\* PostProcessorBuilder::compile(self, device, text_view, surface_config)
compile(overrides, text_view, config) ==
    [overrides |-> overrides, text_view |-> text_view, config |-> config]

\* PostProcessor::resize(&mut self, device, text_view, surface_config)
resize(self, text_view, config) ==
    [self |-> [self EXCEPT !.text_view = text_view, !.config = config]]

\* PostProcessor::process(&mut self, encoder, queue, text_view,
\*                        surface_config, surface_view)
\* seen: what the call was given, beside what the processor was built for
process(self, text_view, config, surface_view) ==
    [self |-> self,
     seen |-> [built_view |-> self.text_view, built_config |-> self.config,
               text_view |-> text_view, config |-> config,
               surface_view |-> surface_view]]

\* mutant: the provided method answers true
needs_update_default_true(self) ==
    TRUE

\* the provided method: fn needs_update(&self) -> bool { false }
needs_update_default(self) ==
    FALSE

\* PostProcessor::needs_update as dispatched on the implementation
needs_update(self) ==
    IF self.overrides THEN TRUE ELSE needs_update_default(self)

(***************************************************************************)
(* The textures alive: those the surface, the held target, the text target *)
(* and the post-processor refer to.                                        *)
(***************************************************************************)
SurfaceTextures(s, t) ==
    (IF s.kind = "Headless" /\ IsSome(s.texture)
     THEN {Unwrap(s.texture).id} ELSE {})
    \cup (IF IsSome(t) THEN {Unwrap(t).view.texture} ELSE {})

BackendTextures(w, pp) ==
    {w.text_dest_view.texture, pp.text_view.texture}

\* the record kept of the last call: its name, arguments and result,
\* whether it logged an error, whether it repeats the call before it
Call(op, args, ret, logged) ==
    [op |-> op, args |-> args, ret |-> ret, logged |-> logged,
     again |-> (last.op = op /\ last.args = args)]

\* the configurations a caller can pass
Configs ==
    { SurfaceConfiguration({"RENDER_ATTACHMENT"}, f, sz[1], sz[2], "Immediate", 2, "Auto") :
        f \in TextureFormat, sz \in Sizes }

(***************************************************************************)
(* Specification SpecSurface: a RenderSurface as the crate's tests use it. *)
(* The surface is created unconfigured and any sequence of calls of its    *)
(* methods and of the methods of the target it hands out follows.  A panic *)
(* ends the behaviour.  The backend's variables are not in use.            *)
(***************************************************************************)
InitSurface ==
    /\ surface \in {new_surface, new_headless}
                    \cup {new_headless_with_format(f) : f \in TextureFormat}
    /\ target = None
    /\ presents = 0
    /\ shown = 0
    /\ last = [op |-> "new", args |-> << >>, ret |-> None, logged |-> FALSE,
               again |-> FALSE]
    /\ panicked = ""
    /\ overflow_checks \in BOOLEAN
    /\ configured = FALSE
    /\ surface_config = None
    /\ wgpu_state = None
    /\ post_process = None
    /\ dirty = FALSE
    /\ frame = None

\* surface.get_default_config(adapter, width, height)
GetDefaultConfig(adapter, width, height) ==
    /\ panicked = ""
    /\ LET r == get_default_config(surface, adapter, width, height)
       IN  /\ surface' = r.self
           /\ last' = Call("get_default_config", << adapter, width, height >>,
                            r.ret, FALSE)
    /\ UNCHANGED << target, presents, shown, panicked, overflow_checks,
                    configured >>
    /\ UNCHANGED backendVars

\* surface.configure(device, config)
Configure(config) ==
    /\ panicked = ""
    /\ LET r == configure(surface, SurfaceTextures(surface, target), config,
                          overflow_checks)
       IN  /\ surface' = r.self
           /\ panicked' = r.panic
    /\ configured' = TRUE
    /\ last' = Call("configure", << config >>, None, FALSE)
    /\ UNCHANGED << target, presents, shown, overflow_checks >>
    /\ UNCHANGED backendVars

\* surface.get_current_texture(); a target still held is dropped.  wgpu
\* requires a Live surface to be configured before a texture is acquired.
GetCurrentTexture(outcome) ==
    /\ panicked = ""
    /\ surface.kind = "Surface" => IsSome(surface.config)
    /\ LET r == get_current_texture(surface, outcome)
       IN  /\ surface' = r.self
           /\ target' = r.ret
           /\ presents' = IF IsSome(r.ret) THEN 0 ELSE presents
           /\ shown' = IF IsSome(r.ret) THEN 0 ELSE shown
           /\ panicked' = r.panic
           /\ last' = Call("get_current_texture", << >>, r.ret, r.logged)
    /\ UNCHANGED << overflow_checks, configured >>
    /\ UNCHANGED backendVars

\* target.get_view()
GetView ==
    /\ panicked = ""
    /\ IsSome(target)
    /\ last' = Call("get_view", << >>, Some(get_view(Unwrap(target))), FALSE)
    /\ UNCHANGED << surface, target, presents, shown, panicked,
                    overflow_checks, configured >>
    /\ UNCHANGED backendVars

\* target.present()
Present ==
    /\ panicked = ""
    /\ IsSome(target)
    /\ LET r == present(Unwrap(target))
       IN  /\ target' = r.self
           /\ shown' = shown + r.shown
           /\ presents' = presents + 1
           /\ last' = Call("present", << >>, None, FALSE)
    /\ UNCHANGED << surface, panicked, overflow_checks, configured >>
    /\ UNCHANGED backendVars

NextSurface ==
    \/ \E c \in Configs : Configure(c)
    \/ \E o \in AcquireOutcome : GetCurrentTexture(o)
    \/ GetView
    \/ Present

SpecSurface == InitSurface /\ [][NextSurface]_vars

(***************************************************************************)
(* Specification SpecConfig: get_default_config applied to every surface   *)
(* state configure produces, for every adapter and size.                   *)
(***************************************************************************)
NextConfig ==
    \/ \E c \in Configs : Configure(c)
    \/ \E a \in Adapters, sz \in Sizes : GetDefaultConfig(a, sz[1], sz[2])

SpecConfig == InitSurface /\ [][NextConfig]_vars

(***************************************************************************)
(* Specification Spec: the backend.  It owns the surface, the text target  *)
(* and the post-processor, and one thread drives it: the host's size       *)
(* changes and text drawing happen between frames, and a frame is          *)
(* get_current_texture, then process, then present.                        *)
(***************************************************************************)
\* Dimensions { width: NonZeroU32, height: NonZeroU32 }
Dimensions == { sz \in Sizes : sz[1] >= 1 /\ sz[2] >= 1 }

\* what the current frame has done (or, between frames, the last one; a
\* resize starts the record afresh): its stage, whether the text had
\* changed and whether needs_update answered true when it began, the
\* process calls made, what process was given, whether a frame before it
\* was dropped for want of a target, and whether the backend was resized
Frame(stage, text_changed, wanted, after_drop, resized) ==
    [stage |-> stage, text_changed |-> text_changed, wanted |-> wanted,
     processes |-> 0, seen |-> None, after_drop |-> after_drop,
     resized |-> resized]

\* the backend as built: the surface is configured with its default
\* configuration for the window's dimensions, the text target is built and
\* the post-processor compiled for both
Init ==
    \E s0 \in {new_surface} \cup {new_headless_with_format(f) : f \in TextureFormat},
       adapter \in Adapters, dim \in Dimensions, overrides \in BOOLEAN,
       checks \in BOOLEAN :
        LET c0 == get_default_config(s0, adapter, dim[1], dim[2]).ret
            c == configure(s0, {}, Unwrap(c0), checks)
            w == build_wgpu_state(SurfaceTextures(c.self, None), dim[1], dim[2])
        IN  /\ IsSome(c0)
            /\ c.panic = ""
            /\ surface = c.self
            /\ surface_config = Unwrap(c0)
            /\ wgpu_state = w
            /\ post_process = compile(overrides, w.text_dest_view, Unwrap(c0))
            /\ overflow_checks = checks
            /\ target = None
            /\ presents = 0
            /\ shown = 0
            /\ last = [op |-> "build", args |-> << >>, ret |-> None,
                       logged |-> FALSE, again |-> FALSE]
            /\ panicked = ""
            /\ configured = TRUE
            /\ dirty = TRUE
            /\ frame = Frame("idle", FALSE, FALSE, FALSE, FALSE)

\* the host reports a new size, between two frames: the surface is
\* configured for it, the text target rebuilt and the post-processor resized
Resize(width, height) ==
    /\ panicked = ""
    /\ frame.stage \notin {"acquired", "processed"}
    /\ LET config == [surface_config EXCEPT !.width = width, !.height = height]
           alive == SurfaceTextures(surface, target)
                        \cup BackendTextures(wgpu_state, post_process)
           c == configure(surface, alive, config, overflow_checks)
           w == build_wgpu_state(SurfaceTextures(c.self, target)
                        \cup BackendTextures(wgpu_state, post_process),
                    width, height)
       IN  /\ surface_config' = config
           /\ surface' = c.self
           /\ panicked' = c.panic
           /\ IF c.panic = ""
              THEN /\ wgpu_state' = w
                   /\ post_process' = resize(post_process, w.text_dest_view,
                                               config).self
              ELSE UNCHANGED << wgpu_state, post_process >>
    /\ frame' = Frame("idle", FALSE, FALSE, FALSE, TRUE)
    /\ last' = Call("resize", << width, height >>, None, FALSE)
    /\ UNCHANGED << target, presents, shown, overflow_checks, configured,
                    dirty >>

\* the text-rendering stage draws changed text into the text target
DrawText ==
    /\ panicked = ""
    /\ target = None
    /\ ~dirty
    /\ dirty' = TRUE
    /\ last' = Call("draw_text", << >>, None, FALSE)
    /\ UNCHANGED << surface, target, presents, shown, panicked,
                    overflow_checks, configured, surface_config, wgpu_state,
                    post_process, frame >>

\* a frame begins: nothing is done unless the text changed or the
\* post-processor needs an update; else the frame's target is acquired
BeginFrame(outcome) ==
    /\ panicked = ""
    /\ target = None
    /\ LET wanted == needs_update(post_process)
           r == get_current_texture(surface, outcome)
           stage == IF IsSome(r.ret) THEN "acquired" ELSE "dropped"
       IN  IF ~(dirty \/ wanted)
           THEN /\ frame' = Frame("skipped", dirty, wanted,
                                   frame.after_drop, frame.resized)
                /\ last' = Call("flush", << >>, None, FALSE)
                /\ UNCHANGED << surface, target, presents, shown, panicked >>
           ELSE /\ frame' = Frame(stage, dirty, wanted,
                                   frame.stage = "dropped" \/ frame.after_drop,
                                   frame.resized)
                /\ surface' = r.self
                /\ target' = r.ret
                /\ presents' = IF IsSome(r.ret) THEN 0 ELSE presents
                /\ shown' = IF IsSome(r.ret) THEN 0 ELSE shown
                /\ panicked' = r.panic
                /\ last' = Call("get_current_texture", << >>, r.ret, r.logged)
    /\ UNCHANGED << overflow_checks, configured, surface_config, wgpu_state,
                    post_process, dirty >>

\* the post-processor renders the text target to the target's view
Process ==
    /\ panicked = ""
    /\ IsSome(target)
    /\ frame.stage = "acquired"
    /\ LET surface_view == get_view(Unwrap(target))
           r == process(post_process, wgpu_state.text_dest_view,
                        surface_config, surface_view)
       IN  /\ post_process' = r.self
           /\ frame' = [frame EXCEPT !.stage = "processed",
                                      !.processes = @ + 1,
                                      !.seen = Some(r.seen)]
           /\ last' = Call("process", << >>, Some(surface_view), FALSE)
    /\ dirty' = FALSE
    /\ UNCHANGED << surface, target, presents, shown, panicked,
                    overflow_checks, configured, surface_config, wgpu_state >>

\* the frame's target is presented; the backend can present for as long as
\* it holds a processed target
PresentFrame ==
    /\ panicked = ""
    /\ IsSome(target)
    /\ frame.stage \in {"processed", "presented"}
    /\ LET r == present(Unwrap(target))
       IN  /\ target' = r.self
           /\ shown' = shown + r.shown
           /\ presents' = presents + 1
    /\ frame' = [frame EXCEPT !.stage = "presented"]
    /\ last' = Call("present", << >>, None, FALSE)
    /\ UNCHANGED << surface, panicked, overflow_checks, configured,
                    surface_config, wgpu_state, post_process, dirty >>

Next ==
    \/ \E sz \in Sizes : Resize(sz[1], sz[2])
    \/ DrawText
    \/ \E o \in AcquireOutcome : BeginFrame(o)
    \/ Process
    \/ PresentFrame

Spec == Init /\ [][Next]_vars

(***************************************************************************)
(* Viewport: the area the text is rendered to, relative to the surface.    *)
(***************************************************************************)
\* Viewport::Full
Full == [kind |-> "Full"]

\* Viewport::Shrink { width: u32, height: u32 }
Shrink(width, height) == [kind |-> "Shrink", width |-> width, height |-> height]

\* the viewports the model draws
Viewport == {Full} \cup { Shrink(w, h) : w \in Dims, h \in Dims }

\* #[derive(Default)] with #[default] on Full
default_viewport == Full

\* u32::saturating_sub
saturating_sub(a, b) == IF a >= b THEN a - b ELSE 0

\* u32::min
Min(a, b) == IF a <= b THEN a ELSE b

\* mutant: the margins are subtracted unchecked, a panic when one exceeds
\* the surface
effective_area_unchecked(viewport, width, height) ==
    IF viewport.kind = "Full"
    THEN [rect |-> [x |-> 0, y |-> 0, width |-> width, height |-> height],
          panic |-> ""]
    ELSE IF viewport.width > width \/ viewport.height > height
    THEN [rect |-> [x |-> 0, y |-> 0, width |-> width, height |-> height],
          panic |-> "effective_area"]
    ELSE [rect |-> [x |-> viewport.width, y |-> 0,
                    width |-> width - viewport.width,
                    height |-> height - viewport.height],
          panic |-> ""]

\* mutant: Shrink's width and height are taken for the size of the area
effective_area_sized(viewport, width, height) ==
    IF viewport.kind = "Full"
    THEN [rect |-> [x |-> 0, y |-> 0, width |-> width, height |-> height],
          panic |-> ""]
    ELSE [rect |-> [x |-> width - Min(viewport.width, width), y |-> 0,
                    width |-> Min(viewport.width, width),
                    height |-> Min(viewport.height, height)],
          panic |-> ""]

\* the effective drawing rectangle of a viewport on a surface of
\* width x height: the whole surface for Full; for Shrink the rectangle
\* anchored at the top right that leaves a margin of viewport.width on the
\* left and of viewport.height at the bottom, each clamped to the surface
effective_area(viewport, width, height) ==
    IF viewport.kind = "Full"
    THEN [rect |-> [x |-> 0, y |-> 0, width |-> width, height |-> height],
          panic |-> ""]
    ELSE [rect |-> [x |-> Min(viewport.width, width), y |-> 0,
                    width |-> saturating_sub(width, viewport.width),
                    height |-> saturating_sub(height, viewport.height)],
          panic |-> ""]

\* a rectangle without pixels
is_empty(rect) == rect.width = 0 \/ rect.height = 0

(***************************************************************************)
(* Specification SpecViewport: the backend, built and resized to every     *)
(* size, computes the drawing rectangle of every viewport.                 *)
(***************************************************************************)
\* the drawing rectangle of a viewport on the surface as configured
RenderArea(viewport) ==
    /\ panicked = ""
    /\ frame.stage \notin {"acquired", "processed"}
    /\ LET r == effective_area(viewport, surface_config.width,
                               surface_config.height)
       IN  /\ last' = Call("render_area", << viewport >>, Some(r.rect), FALSE)
           /\ panicked' = r.panic
    /\ UNCHANGED << surface, target, presents, shown, overflow_checks,
                    configured >>
    /\ UNCHANGED backendVars

NextViewport ==
    \/ \E sz \in Sizes : Resize(sz[1], sz[2])
    \/ \E v \in Viewport : RenderArea(v)

SpecViewport == Init /\ [][NextViewport]_vars

(***************************************************************************)
(* Claims                                                                  *)
(***************************************************************************)
Headless == surface.kind = "Headless"
Live == surface.kind = "Surface"

\* C1 (SpecSurface): on a Headless surface get_current_texture yields
\* nothing in every state before the first configure and a target in every
\* state after one, whatever calls of configure, get_current_texture,
\* get_view and present were made.
C1_AcquireIffConfigured ==
    Headless =>
        /\ IsSome(get_current_texture(surface, "Ok").ret) <=> configured
        /\ last.op = "get_current_texture" => (IsSome(last.ret) <=> configured)

\* a configured headless surface: two acquisitions in a row, and the second
\* one yields a target
C1_Witness ==
    /\ Headless
    /\ configured
    /\ last.op = "get_current_texture"
    /\ last.again
    /\ IsSome(last.ret)
    /\ IsSome(target)

\* C2 (Spec): when the Live surface's acquisition fails, get_current_texture
\* logs and returns nothing without panicking; the frame ends there, with
\* no process and no present (nothing is held that either could be given);
\* the call changes neither the surface, the text target, the post-processor
\* nor what was presented; and an acquisition that succeeds is possible
\* afterwards.
C2_SoftFailure ==
    /\ [](last.op = "get_current_texture" /\ last.logged =>
            /\ last.ret = None
            /\ target = None
            /\ panicked = ""
            /\ frame.stage = "dropped")
    /\ [](frame.stage = "dropped" =>
            /\ frame.processes = 0
            /\ target = None
            /\ ~ENABLED Process
            /\ ~ENABLED PresentFrame
            /\ ENABLED (BeginFrame("Ok") /\ IsSome(target')))
    /\ [][last'.op = "get_current_texture" /\ last'.logged =>
            /\ surface' = surface
            /\ wgpu_state' = wgpu_state
            /\ post_process' = post_process
            /\ surface_config' = surface_config
            /\ presents' = presents
            /\ shown' = shown]_vars

\* a frame was dropped for want of a target and a later frame acquired one
C2_Witness ==
    /\ Live
    /\ frame.after_drop
    /\ frame.stage = "acquired"
    /\ IsSome(target)

\* C3 (Spec): the text target is max(width, 1) x max(height, 1) for the
\* configured width and height, 0 included, so it is never zero-sized.
C3_TextTargetSize ==
    /\ wgpu_state.text_dest_view.width >= 1
    /\ wgpu_state.text_dest_view.height >= 1
    /\ panicked = "" =>
        /\ wgpu_state.text_dest_view.width = Max(surface_config.width, 1)
        /\ wgpu_state.text_dest_view.height = Max(surface_config.height, 1)

\* the backend was resized to 0 x MaxDim: the text target is 1 x MaxDim
C3_Witness ==
    /\ frame.resized
    /\ panicked = ""
    /\ surface_config.width = 0
    /\ surface_config.height = MaxDim
    /\ wgpu_state.text_dest_view.width = 1
    /\ wgpu_state.text_dest_view.height = MaxDim

\* C4 (Spec): after a change of size the post-processor has been resized
\* before the next process call and the text target has the new size at
\* the next acquisition: process is only ever given a text view and a
\* configuration the post-processor was built for, and that text view has
\* the size of the configuration in force.
C4_ResizeBeforeProcess ==
    panicked = "" =>
        /\ post_process.config = surface_config
        /\ post_process.text_view = wgpu_state.text_dest_view
        /\ IsSome(frame.seen) =>
            LET seen == Unwrap(frame.seen)
            IN  /\ seen.config = surface_config
                /\ seen.built_config = seen.config
                /\ seen.built_view = seen.text_view
                /\ seen.text_view.width = Max(seen.config.width, 1)
                /\ seen.text_view.height = Max(seen.config.height, 1)
        /\ frame.stage = "acquired" =>
            /\ wgpu_state.text_dest_view.width = Max(surface_config.width, 1)
            /\ wgpu_state.text_dest_view.height = Max(surface_config.height, 1)

\* after a resize to 1 x MaxDim a frame has run process
C4_Witness ==
    /\ frame.resized
    /\ frame.stage = "processed"
    /\ IsSome(frame.seen)
    /\ surface_config.width = 1
    /\ surface_config.height = MaxDim

C6_PresentOnce ==
    /\ presents <= 1
    /\ shown <= presents
    /\ presents = 1 => target = None
    /\ frame.stage \in {"acquired", "processed"} =>
            IsSome(target) /\ presents = 0
    /\ frame.stage = "presented" =>
            /\ presents = 1
            /\ frame.processes = 1
            /\ target = None
            /\ Live => shown = 1
            /\ ~ENABLED PresentFrame
            /\ ~ENABLED Process

\* a Live target was processed and presented
C6_Witness ==
    /\ Live
    /\ frame.stage = "presented"
    /\ last.op = "present"
    /\ shown = 1

\* C7 (Spec): get_current_texture, process and present never panic,
\* whatever configure and resize calls were made before: the only panic of
\* the backend is that of a resize.
C7_FrameNeverPanics ==
    /\ last.op \in {"flush", "get_current_texture", "process", "present"}
            => panicked = ""
    /\ panicked # "" => panicked = "configure" /\ last.op = "resize"

\* after a resize a frame acquired, processed and presented a target
C7_Witness ==
    /\ frame.resized
    /\ frame.stage = "presented"
    /\ last.op = "present"
    /\ panicked = ""
    /\ presents = 1

\* C8 (SpecSurface): a configure call that repeats the call before it leaves
\* the surface's observable state as it was: recorded width, height, row
\* width and format, and presence and size of the texture and the buffer.
C8_ConfigureIdempotent ==
    [][(last.op = "configure" /\ last'.op = "configure"
            /\ last'.args = last.args) =>
        LET Texture(s) == IF IsSome(s.texture)
                          THEN << Unwrap(s.texture).width,
                                  Unwrap(s.texture).height,
                                  Unwrap(s.texture).format >>
                          ELSE << >>
            Buffer(s) == IF IsSome(s.buffer)
                         THEN << Unwrap(s.buffer).size >> ELSE << >>
            Observable(s) ==
                IF s.kind = "Surface" THEN << s.config >>
                ELSE << s.width, s.height, s.buffer_width, s.format,
                        Texture(s), Buffer(s) >>
        IN  /\ Observable(surface') = Observable(surface)
            /\ panicked' = panicked]_vars

\* a Headless surface was configured twice in a row for 1 x MaxDim
C8_Witness ==
    /\ Headless
    /\ last.op = "configure"
    /\ last.again
    /\ panicked = ""
    /\ surface.width = 1
    /\ surface.height = MaxDim

\* C9 (SpecConfig): on a Headless surface get_default_config returns, in
\* every state and for every size, a configuration of the asked width and
\* height, the surface's format, immediate presentation and auto alpha
\* compositing, and leaves the surface as it was.
C9_DefaultConfig ==
    /\ []((Headless /\ last.op = "get_default_config") =>
            /\ IsSome(last.ret)
            /\ Unwrap(last.ret).width = last.args[2]
            /\ Unwrap(last.ret).height = last.args[3]
            /\ Unwrap(last.ret).format = surface.format
            /\ Unwrap(last.ret).present_mode = "Immediate"
            /\ Unwrap(last.ret).alpha_mode = "Auto")
    /\ [][last'.op = "get_default_config" =>
            /\ surface' = surface
            /\ target' = target
            /\ panicked' = panicked]_vars

\* a configured Headless surface was asked for a configuration of another
\* size than the one it is configured for
C9_Witness ==
    /\ Headless
    /\ configured
    /\ last.op = "get_default_config"
    /\ IsSome(last.ret)
    /\ Unwrap(last.ret).width # surface.width

\* C10 as claimed (SpecSurface): after configure(device, config) on a
\* Headless surface the recorded format and the format of the texture
\* allocated are the format of config.
C10_FormatRecorded ==
    (Headless /\ last.op = "configure" /\ panicked = "") =>
        /\ surface.format = last.args[1].format
        /\ Unwrap(surface.texture).format = last.args[1].format


\* the bytes of one block (one pixel) of the 8-bit four-channel formats:
\* the factor of config.width * 4
BlockSize == 4

\* the byte width of a row rounded up to the format's block size
row_stride(width) ==
    (((width * 4) + (BlockSize - 1)) \div BlockSize) * BlockSize

\* C11 as claimed (SpecSurface): after configure(width, height) on a
\* Headless surface the recorded row width is row_stride(width), a multiple
\* of the block size, and the read-back buffer's size is
\* row_stride(width) x height.
C11_BufferSize ==
    (Headless /\ last.op = "configure" /\ panicked = "") =>
        LET width == last.args[1].width
            height == last.args[1].height
        IN  /\ surface.buffer_width % BlockSize = 0
            /\ ~MulOverflows(width, 4)
            /\ surface.buffer_width = row_stride(width)
            /\ ~MulOverflows(row_stride(width), height)
            /\ Unwrap(surface.buffer).size = row_stride(width) * height

\* C19 as claimed (SpecSurface): for every u32 width and height configure on
\* a Headless surface computes 4 x width and (4 x width) x height without
\* overflow: it does not panic, and the buffer allocated has the exact size
\* 4 x width x height.
C19_NoOverflow ==
    (Headless /\ last.op = "configure") =>
        LET width == last.args[1].width
            height == last.args[1].height
        IN  /\ panicked = ""
            /\ ~MulOverflows(width, 4)
            /\ ~MulOverflows(4 * width, height)
            /\ IsSome(surface.buffer)
            /\ Unwrap(surface.buffer).size = (4 * width) * height

\* C18 as claimed (SpecSurface): in every state of a Headless surface the
\* texture is allocated exactly when the buffer is; once allocated, the
\* recorded width and height are those of the most recent configure, the
\* recorded row width is 4 x that width, and the texture and the buffer have
\* the sizes of that configure.
C18_HeadlessConsistent ==
    (Headless /\ panicked = "") =>
        /\ IsSome(surface.texture) <=> IsSome(surface.buffer)
        /\ IsSome(surface.texture) <=> configured
        /\ last.op = "configure" =>
            /\ surface.width = last.args[1].width
            /\ surface.height = last.args[1].height
        /\ IsSome(surface.texture) =>
            /\ Unwrap(surface.texture).width = surface.width
            /\ Unwrap(surface.texture).height = surface.height
            /\ ~MulOverflows(surface.width, 4)
            /\ surface.buffer_width = 4 * surface.width
            /\ ~MulOverflows(4 * surface.width, surface.height)
            /\ Unwrap(surface.buffer).size = (4 * surface.width) * surface.height

\* C20 (SpecSurface): get_current_texture leaves the surface as it was, and
\* on a configured Headless surface every acquisition yields a target whose
\* view is on the surface's backing texture: the same texture as the
\* acquisition before it when no configure came between.
C20_AcquireReadsOnly ==
    [][last'.op = "get_current_texture" =>
        /\ surface' = surface
        /\ configured' = configured
        /\ (Headless /\ configured) =>
            /\ IsSome(target')
            /\ get_view(Unwrap(target')) = create_view(Unwrap(surface.texture))
            /\ (last.op = "get_current_texture" /\ IsSome(last.ret)) =>
                    get_view(Unwrap(target')) = get_view(Unwrap(last.ret))]_vars

\* two acquisitions in a row on a Headless surface configured for
\* MaxDim x 1, the second on the surface's texture
C20_Witness ==
    /\ Headless
    /\ last.op = "get_current_texture"
    /\ last.again
    /\ IsSome(target)
    /\ surface.width = MaxDim
    /\ surface.height = 1
    /\ Unwrap(target).view.texture = Unwrap(surface.texture).id

\* C17 (SpecSurface): present of a Headless target does nothing: no image
\* goes to a display, and the surface (texture, buffer, recorded width,
\* height, row width and format) is as before, so that an acquisition right
\* after it yields a target on the same texture.
C17_HeadlessPresentNoOp ==
    [][(last'.op = "present" /\ Unwrap(target).kind = "Headless") =>
        /\ surface' = surface
        /\ shown' = shown
        /\ panicked' = panicked
        /\ configured' = configured
        /\ IsSome(surface.texture) =>
            LET r == get_current_texture(surface', "Ok")
            IN  /\ IsSome(r.ret)
                /\ get_view(Unwrap(r.ret)) = create_view(Unwrap(surface.texture))
                /\ get_view(Unwrap(target)).texture = Unwrap(surface.texture).id
                        => get_view(Unwrap(r.ret)) = get_view(Unwrap(target))]_vars

\* a Headless target was presented and the surface still holds its texture,
\* of MaxDim x MaxDim
C17_Witness ==
    /\ Headless
    /\ last.op = "present"
    /\ presents = 1
    /\ shown = 0
    /\ target = None
    /\ IsSome(surface.texture)
    /\ Unwrap(surface.texture).width = MaxDim
    /\ Unwrap(surface.texture).height = MaxDim
    /\ IsSome(get_current_texture(surface, "Ok").ret)

\* C12 (Spec): the surface is configured and the post-processor resized
\* only between frames, when no target is held; so that the view of a
\* target held is always a view of the surface's backing texture as it is.
C12_BetweenFrames ==
    /\ [][last'.op = "resize" =>
            /\ target = None
            /\ target' = None
            /\ frame.stage \notin {"acquired", "processed"}]_vars
    /\ [][IsSome(target) =>
            /\ target' # None => surface' = surface
            /\ target' # None => post_process'.config = post_process.config
            /\ target' # None => post_process'.text_view = post_process.text_view]_vars
    /\ []((IsSome(target) /\ Headless) =>
            /\ IsSome(surface.texture)
            /\ get_view(Unwrap(target)) = create_view(Unwrap(surface.texture)))
    /\ []((IsSome(target) /\ Live) =>
            /\ get_view(Unwrap(target)).width = Unwrap(surface.config).width
            /\ get_view(Unwrap(target)).height = Unwrap(surface.config).height)

\* after a resize of a Headless surface to MaxDim x 1 a target is held
C12_Witness ==
    /\ Headless
    /\ frame.resized
    /\ frame.stage = "acquired"
    /\ IsSome(target)
    /\ surface.width = MaxDim
    /\ surface.height = 1

\* C15 (Spec): the text target is always Rgba8Unorm, usable as texture
\* binding and as render attachment, after any resizes and whatever the
\* format of the surface; and so is the text view the post-processor has.
C15_TextTargetFormat ==
    /\ wgpu_state.text_dest_view.format = "Rgba8Unorm"
    /\ {"TEXTURE_BINDING", "RENDER_ATTACHMENT"} \subseteq wgpu_state.text_dest_view.usage
    /\ post_process.text_view.format = "Rgba8Unorm"
    /\ IsSome(frame.seen) => Unwrap(frame.seen).text_view.format = "Rgba8Unorm"

\* a backend whose surface is Bgra8UnormSrgb was resized and ran process
C15_Witness ==
    /\ surface_config.format = "Bgra8UnormSrgb"
    /\ frame.resized
    /\ frame.stage = "processed"
    /\ panicked = ""

\* C16 (Spec): a resize builds the new text texture while the old one is
\* alive and replaces texture and view together: in every state a frame can
\* observe the text view is a view of one texture the device created, other
\* than the surface's, of the size of the configuration in force, and it is
\* the view the post-processor has.
C16_TextTargetWhole ==
    /\ [](panicked = "" =>
            LET v == wgpu_state.text_dest_view
            IN  /\ v.texture >= 1
                /\ v.texture \notin SurfaceTextures(surface, target)
                /\ v.width = Max(surface_config.width, 1)
                /\ v.height = Max(surface_config.height, 1)
                /\ post_process.text_view = v)
    /\ [][(last'.op = "resize" /\ panicked' = "") =>
            wgpu_state'.text_dest_view.texture
                # wgpu_state.text_dest_view.texture]_vars
    /\ [][last'.op # "resize" => wgpu_state' = wgpu_state]_vars

\* a frame acquired a target after a resize to 1 x 1
C16_Witness ==
    /\ frame.resized
    /\ last.op = "get_current_texture"
    /\ IsSome(target)
    /\ wgpu_state.text_dest_view.width = 1
    /\ wgpu_state.text_dest_view.height = 1
    /\ surface_config.width = 1
    /\ surface_config.height = 1

\* C13 (SpecViewport): a Shrink viewport whose width or height exceeds the
\* surface's yields an empty drawing rectangle and no panic, for every size
\* of the surface and of the viewport; the rectangle lies within the
\* surface.
C13_ShrinkClampsToEmpty ==
    /\ \A v \in Viewport \ {Full} :
        (v.width > surface_config.width \/ v.height > surface_config.height) =>
            LET r == effective_area(v, surface_config.width,
                                    surface_config.height)
            IN  /\ r.panic = ""
                /\ is_empty(r.rect)
    /\ last.op = "render_area" =>
        /\ panicked = ""
        /\ Unwrap(last.ret).x + Unwrap(last.ret).width <= surface_config.width
        /\ Unwrap(last.ret).y + Unwrap(last.ret).height <= surface_config.height
        /\ (/\ last.args[1].kind = "Shrink"
            /\ \/ last.args[1].width > surface_config.width
               \/ last.args[1].height > surface_config.height)
           => is_empty(Unwrap(last.ret))

\* the rectangle of Shrink{1, BigDim} was computed on a surface resized to
\* MaxDim x MaxDim: the height exceeds, the width does not
C13_Witness ==
    /\ last.op = "render_area"
    /\ last.args[1] = Shrink(1, BigDim)
    /\ surface_config.width = MaxDim
    /\ surface_config.height = MaxDim
    /\ is_empty(Unwrap(last.ret))
    /\ panicked = ""

\* C14 (SpecViewport): for every size of the surface Shrink{0, 0} has the
\* drawing rectangle of Full, the default viewport: the whole surface.
C14_ShrinkZeroIsFull ==
    /\ default_viewport = Full
    /\ effective_area(Shrink(0, 0), surface_config.width, surface_config.height)
        = effective_area(default_viewport, surface_config.width,
                         surface_config.height)
    /\ (last.op = "render_area" /\ last.args[1] \in {Full, Shrink(0, 0)}) =>
        /\ Unwrap(last.ret).x = 0
        /\ Unwrap(last.ret).y = 0
        /\ Unwrap(last.ret).width = surface_config.width
        /\ Unwrap(last.ret).height = surface_config.height

\* the rectangle of Shrink{0, 0} was computed on a surface of MaxDim x 1
C14_Witness ==
    /\ last.op = "render_area"
    /\ last.args[1] = Shrink(0, 0)
    /\ surface_config.width = MaxDim
    /\ surface_config.height = 1
    /\ Unwrap(last.ret).width = MaxDim
==========================================================================
